---- MODULE Spec2Model ----
(***************************************************************************)
(* A model of urlJoin (Mrcxt/url-join).  The function is pure: one call    *)
(* is modelled as a run of the steps of its body, from the argument list   *)
(* to the returned text.  A text is a sequence of one-character strings,   *)
(* so that the regular expressions and the index arithmetic of the source  *)
(* are computed character by character.                                    *)
(*                                                                         *)
(* The source modelled is the implementation with query support            *)
(* (src/src/index.test.ts, lines 114-322); src/src/index.ts is the same    *)
(* code without the query option.                                          *)
(***************************************************************************)
EXTENDS Integers, Sequences, FiniteSets, TLC

VARIABLES args, pc, options, segments, validSegments, existingQuery,
          cleanedSegments, result, finalQuery, returned

vars == <<args, pc, options, segments, validSegments, existingQuery,
          cleanedSegments, result, finalQuery, returned>>

(***************************************************************************)
(* Bounds of the explored inputs.                                          *)
(***************************************************************************)
MaxChars == 2

MaxSegs == 2

MaxNum == 12

MaxKeys == 2

MaxItems == 2

MaxPart == 2

MaxTail == 3

MaxQueryText == 3

(***************************************************************************)
(* Values.  A segment is a string, a number, null or undefined; the last   *)
(* argument may be an options object.  t is the JavaScript type of a       *)
(* value.  An option is "unset" (undefined), "true" or "false".            *)
(***************************************************************************)
NoQuery == [present |-> FALSE, entries |-> <<>>]

DefaultOptions == [trailingSlash |-> "unset", normalize |-> "unset", query |-> NoQuery]

Null == [t |-> "null"]

Undefined == [t |-> "undefined"]

Str(text) == [t |-> "string", s |-> text]

Num(k) == [t |-> "number", n |-> k]

Obj(opts) == [t |-> "object", o |-> opts]

(***************************************************************************)
(* Text helpers: the JavaScript string methods the source uses.            *)
(***************************************************************************)
Slice(text, from) == SubSeq(text, from, Len(text))

StartsWith(text, prefix) ==
    /\ Len(prefix) <= Len(text)
    /\ SubSeq(text, 1, Len(prefix)) = prefix

EndsWith(text, suffix) ==
    /\ Len(suffix) <= Len(text)
    /\ SubSeq(text, Len(text) - Len(suffix) + 1, Len(text)) = suffix

Includes(text, part) ==
    \E i \in 1..(Len(text) - Len(part) + 1) : SubSeq(text, i, i + Len(part) - 1) = part

\* indexOf(c): the first position of c (1-based), 0 when there is none.
IndexOf(text, c) ==
    IF \E i \in 1..Len(text) : text[i] = c
    THEN CHOOSE i \in 1..Len(text) : text[i] = c /\ \A j \in 1..(i - 1) : text[j] # c
    ELSE 0

RECURSIVE JoinWith(_, _)
JoinWith(parts, sep) ==
    IF parts = <<>> THEN <<>>
    ELSE IF Len(parts) = 1 THEN parts[1]
    ELSE parts[1] \o sep \o JoinWith(Tail(parts), sep)

Digit(d) == <<"0", "1", "2", "3", "4", "5", "6", "7", "8", "9">>[d + 1]

\* String(n) of a non-negative integer: its decimal digits.
RECURSIVE Decimal(_)
Decimal(k) == IF k < 10 THEN <<Digit(k)>> ELSE Decimal(k \div 10) \o <<Digit(k % 10)>>

\* String(v) of a string or a number.
ToStr(v) == IF v.t = "number" THEN Decimal(v.n) ELSE v.s

Letters ==
    {"a", "b", "c", "d", "e", "f", "g", "h", "i", "j", "k", "l", "m",
     "n", "o", "p", "q", "r", "s", "t", "u", "v", "w", "x", "y", "z",
     "A", "B", "C", "D", "E", "F", "G", "H", "I", "J", "K", "L", "M",
     "N", "O", "P", "Q", "R", "S", "T", "U", "V", "W", "X", "Y", "Z"}

Digits == {"0", "1", "2", "3", "4", "5", "6", "7", "8", "9"}

(***************************************************************************)
(* isValidSegment                                                          *)
(***************************************************************************)
\* A variant that tests truthiness: the number 0 is dropped too.
isValidSegmentTruthy(segment) ==
    /\ segment.t # "null"
    /\ segment.t # "undefined"
    /\ ~(segment.t = "string" /\ segment.s = <<>>)
    /\ ~(segment.t = "number" /\ segment.n = 0)

isValidSegment(segment) ==
    /\ segment.t # "null"
    /\ segment.t # "undefined"
    /\ ~(segment.t = "string" /\ segment.s = <<>>)

(***************************************************************************)
(* normalizeSegment: String(segment) without its leading and its trailing  *)
(* run of '/' (the replace of /^\/+|\/+$/g by '').                          *)
(***************************************************************************)
RECURSIVE StripLeadingSlashes(_)
StripLeadingSlashes(text) ==
    IF text # <<>> /\ Head(text) = "/" THEN StripLeadingSlashes(Tail(text)) ELSE text

RECURSIVE StripTrailingSlashes(_)
StripTrailingSlashes(text) ==
    IF text # <<>> /\ text[Len(text)] = "/"
    THEN StripTrailingSlashes(SubSeq(text, 1, Len(text) - 1))
    ELSE text

normalizeSegment(segment) == StripTrailingSlashes(StripLeadingSlashes(ToStr(segment)))

(***************************************************************************)
(* normalizeSlashes: url.replace(/([^:])\/\/+/g, '$1/').  The scan goes    *)
(* left to right over non-overlapping matches: a character other than ':'  *)
(* followed by two or more '/' is replaced by that character and one '/'.  *)
(***************************************************************************)
RECURSIVE SlashRunEnd(_, _)
SlashRunEnd(url, j) ==
    IF j <= Len(url) /\ url[j] = "/" THEN SlashRunEnd(url, j + 1) ELSE j

RECURSIVE ReplaceFrom(_, _)
ReplaceFrom(url, i) ==
    IF i > Len(url) THEN <<>>
    ELSE IF /\ url[i] # ":"
            /\ i + 2 <= Len(url)
            /\ url[i + 1] = "/"
            /\ url[i + 2] = "/"
         THEN <<url[i], "/">> \o ReplaceFrom(url, SlashRunEnd(url, i + 1))
         ELSE <<url[i]>> \o ReplaceFrom(url, i + 1)

\* A variant without the exception for ':' (the replace of /\/\/+/g by '/').
RECURSIVE CollapseFrom(_, _)
CollapseFrom(url, i) ==
    IF i > Len(url) THEN <<>>
    ELSE IF url[i] = "/" THEN <<"/">> \o CollapseFrom(url, SlashRunEnd(url, i))
    ELSE <<url[i]>> \o CollapseFrom(url, i + 1)

normalizeAllSlashes(url) == CollapseFrom(url, 1)

normalizeSlashes(url) == ReplaceFrom(url, 1)

(***************************************************************************)
(* encodeURIComponent, on the characters the model uses: the unreserved    *)
(* characters stay, every other character becomes its %XX escape.          *)
(***************************************************************************)
Unreserved == Letters \cup Digits \cup {"-", "_", ".", "!", "~", "*", "'", "(", ")"}

EscapeOf(c) ==
    CASE c = " " -> <<"%", "2", "0">>
      [] c = "#" -> <<"%", "2", "3">>
      [] c = "$" -> <<"%", "2", "4">>
      [] c = "%" -> <<"%", "2", "5">>
      [] c = "&" -> <<"%", "2", "6">>
      [] c = "+" -> <<"%", "2", "B">>
      [] c = "/" -> <<"%", "2", "F">>
      [] c = ":" -> <<"%", "3", "A">>
      [] c = "=" -> <<"%", "3", "D">>
      [] c = "?" -> <<"%", "3", "F">>
      [] c = "@" -> <<"%", "4", "0">>

RECURSIVE encodeURIComponent(_)
encodeURIComponent(text) ==
    IF text = <<>> THEN <<>>
    ELSE (IF Head(text) \in Unreserved THEN <<Head(text)>> ELSE EscapeOf(Head(text)))
         \o encodeURIComponent(Tail(text))

(***************************************************************************)
(* Query values: a scalar (string, number, boolean, null, undefined) or an *)
(* array of scalars.  A query object is the sequence of its own            *)
(* properties, [key, val], in insertion order, with distinct keys.         *)
(***************************************************************************)
QNull == [t |-> "null", s |-> <<>>, n |-> 0, items |-> <<>>]

QUndefined == [t |-> "undefined", s |-> <<>>, n |-> 0, items |-> <<>>]

QStr(text) == [t |-> "string", s |-> text, n |-> 0, items |-> <<>>]

QNum(k) == [t |-> "number", s |-> <<>>, n |-> k, items |-> <<>>]

QBool(b) == [t |-> "boolean", s |-> <<>>, n |-> IF b THEN 1 ELSE 0, items |-> <<>>]

QArray(items) == [t |-> "array", s |-> <<>>, n |-> 0, items |-> items]

\* String(value) of a scalar query value.
QToStr(v) ==
    CASE v.t = "number" -> Decimal(v.n)
      [] v.t = "boolean" -> IF v.n = 1 THEN <<"t", "r", "u", "e">> ELSE <<"f", "a", "l", "s", "e">>
      [] OTHER -> v.s

QAbsent(v) == v.t = "null" \/ v.t = "undefined"

(***************************************************************************)
(* Object.entries(query): the own properties in property order, which is   *)
(* the integer-index keys ("0", "1", "12", ...) in ascending numeric       *)
(* order, then the other keys in insertion order.                          *)
(***************************************************************************)
DigitValue(c) == CHOOSE d \in 0..9 : Digit(d) = c

RECURSIVE KeyNumber(_)
KeyNumber(key) ==
    IF key = <<>> THEN 0
    ELSE 10 * KeyNumber(SubSeq(key, 1, Len(key) - 1)) + DigitValue(key[Len(key)])

IsArrayIndex(key) ==
    /\ key # <<>>
    /\ \A i \in 1..Len(key) : key[i] \in Digits
    /\ (Len(key) = 1 \/ key[1] # "0")
    /\ Len(key) <= 9   \* an index is below 2^32 - 1; the 10-digit ones are left out

RECURSIVE AscendingByKey(_)
AscendingByKey(entrySet) ==
    IF entrySet = {} THEN <<>>
    ELSE LET least == CHOOSE e \in entrySet :
                          \A f \in entrySet : KeyNumber(e.key) <= KeyNumber(f.key)
         IN <<least>> \o AscendingByKey(entrySet \ {least})

\* A variant that keeps the insertion order for every key.
ObjectEntriesAsInserted(entries) == entries

ObjectEntries(entries) ==
    AscendingByKey({entries[i] : i \in {j \in 1..Len(entries) : IsArrayIndex(entries[j].key)}})
    \o SelectSeq(entries, LAMBDA e : ~IsArrayIndex(e.key))

(***************************************************************************)
(* stringifyQuery                                                          *)
(***************************************************************************)
Param(key, v) == encodeURIComponent(key) \o <<"=">> \o encodeURIComponent(QToStr(v))

RECURSIVE ItemParams(_, _)
ItemParams(key, items) ==
    IF items = <<>> THEN <<>>
    ELSE (IF QAbsent(Head(items)) THEN <<>> ELSE <<Param(key, Head(items))>>)
         \o ItemParams(key, Tail(items))

RECURSIVE EntryParams(_)
EntryParams(entries) ==
    IF entries = <<>> THEN <<>>
    ELSE LET key == Head(entries).key
             value == Head(entries).val
         IN (IF QAbsent(value) THEN <<>>
             ELSE IF value.t = "array" THEN ItemParams(key, value.items)
             ELSE <<Param(key, value)>>)
            \o EntryParams(Tail(entries))

stringifyQuery(query) ==
    LET params == EntryParams(ObjectEntries(query.entries))
    IN IF Len(params) > 0 THEN <<"?">> \o JoinWith(params, <<"&">>) ELSE <<>>

(***************************************************************************)
(* extractQuery                                                            *)
(***************************************************************************)
extractQuery(url) ==
    LET queryIndex == IndexOf(url, "?")
    IN IF queryIndex = 0
       THEN [path |-> url, query |-> <<>>]
       ELSE [path |-> SubSeq(url, 1, queryIndex - 1), query |-> Slice(url, queryIndex)]

(***************************************************************************)
(* urlJoin, step by step.                                                  *)
(***************************************************************************)
\* The last argument is the options when it is an object (and not null).
hasOptions(a) == a # <<>> /\ a[Len(a)].t = "object"

OptionsOf(a) == IF hasOptions(a) THEN a[Len(a)].o ELSE DefaultOptions

SegmentsOf(a) == IF hasOptions(a) THEN SubSeq(a, 1, Len(a) - 1) ELSE a

\* The special case of the single segment '/'.
IsSingleSlash(segs) == Len(segs) = 1 /\ segs[1].t = "string" /\ segs[1].s = <<"/">>

\* A variant that returns '/' whatever trailingSlash is.
SingleSlashKept(opts) == <<"/">>

SingleSlashResult(opts) == IF opts.trailingSlash = "false" THEN <<>> ELSE <<"/">>

RECURSIVE MapNormalize(_)
MapNormalize(segs) ==
    IF segs = <<>> THEN <<>> ELSE <<normalizeSegment(Head(segs))>> \o MapNormalize(Tail(segs))

\* segments.filter(isValidSegment).map(normalizeSegment).filter(non-empty)
ValidSegments(segs) ==
    SelectSeq(MapNormalize(SelectSeq(segs, isValidSegment)), LAMBDA text : Len(text) > 0)

\* The query of the first segment that has one ('' when none has).
RECURSIVE FirstQuery(_)
FirstQuery(valid) ==
    IF valid = <<>> THEN <<>>
    ELSE IF extractQuery(Head(valid)).query # <<>> THEN extractQuery(Head(valid)).query
    ELSE FirstQuery(Tail(valid))

RECURSIVE CleanedSegments(_)
CleanedSegments(valid) ==
    IF valid = <<>> THEN <<>>
    ELSE <<extractQuery(Head(valid)).path>> \o CleanedSegments(Tail(valid))

\* String(segments.find(isValidSegment) || ''): the number 0 is falsy.
FirstSegment(segs) ==
    LET found == SelectSeq(segs, isValidSegment)
    IN IF found = <<>> THEN <<>>
       ELSE IF found[1].t = "number" /\ found[1].n = 0 THEN <<>>
       ELSE ToStr(found[1])

IsProtocolChar(c) == c \in Letters \cup Digits \cup {"+", ".", "-"}

RECURSIVE ProtocolCharsEnd(_, _)
ProtocolCharsEnd(text, j) ==
    IF j <= Len(text) /\ IsProtocolChar(text[j]) THEN ProtocolCharsEnd(text, j + 1) ELSE j

\* The length of the match of /^[a-zA-Z][a-zA-Z0-9+.-]*:\/\//, 0 without a match.
ProtocolLength(text) ==
    IF text # <<>> /\ text[1] \in Letters
    THEN LET j == ProtocolCharsEnd(text, 2)
         IN IF j + 2 <= Len(text) /\ SubSeq(text, j, j + 2) = <<":", "/", "/">>
            THEN j + 2
            ELSE 0
    ELSE 0

\* The join of the cleaned segments with the protocol or the leading slash restored.
JoinedResult(segs, cleaned) ==
    LET firstSegment == FirstSegment(segs)
        joined == JoinWith(cleaned, <<"/">>)
    IN IF Includes(firstSegment, <<":", "/", "/">>)
       THEN IF ProtocolLength(firstSegment) > 0
            THEN LET protocol == SubSeq(firstSegment, 1, ProtocolLength(firstSegment))
                     restOfFirst == Slice(firstSegment, ProtocolLength(firstSegment) + 1)
                     cleanPath == extractQuery(restOfFirst).path
                     normalizedFirst == normalizeSegment(Str(cleanPath))
                 IN protocol \o JoinWith(<<normalizedFirst>> \o Tail(cleaned), <<"/">>)
            ELSE joined
       ELSE IF StartsWith(firstSegment, <<"/">>) THEN <<"/">> \o joined
       ELSE joined

NormalizedResult(url, opts) ==
    IF opts.normalize # "false" THEN normalizeSlashes(url) ELSE url

\* A variant that appends the '/' without looking at the end of the text.
TrailingSlashAlwaysAppended(url, opts) ==
    IF opts.trailingSlash = "true" THEN url \o <<"/">>
    ELSE IF opts.trailingSlash = "false" /\ EndsWith(url, <<"/">>) /\ Len(url) > 1
         THEN SubSeq(url, 1, Len(url) - 1)
    ELSE url

TrailingSlashResult(url, opts) ==
    IF opts.trailingSlash = "true" /\ ~EndsWith(url, <<"/">>) THEN url \o <<"/">>
    ELSE IF opts.trailingSlash = "false" /\ EndsWith(url, <<"/">>) /\ Len(url) > 1
         THEN SubSeq(url, 1, Len(url) - 1)
    ELSE url

FinalQuery(existing, opts) ==
    IF opts.query.present /\ stringifyQuery(opts.query) # <<>>
    THEN IF existing # <<>>
         THEN existing \o <<"&">> \o Slice(stringifyQuery(opts.query), 2)
         ELSE stringifyQuery(opts.query)
    ELSE existing

\* The path part of the returned value: result before the query is appended.
urlJoinPath(a) ==
    LET opts == OptionsOf(a)
        segs == SegmentsOf(a)
        valid == ValidSegments(segs)
    IN IF IsSingleSlash(segs) THEN SingleSlashResult(opts)
       ELSE IF valid = <<>> THEN <<>>
       ELSE TrailingSlashResult(
                NormalizedResult(JoinedResult(segs, CleanedSegments(valid)), opts), opts)

\* The query part of the returned value ('' on the two early returns).
urlJoinQuery(a) ==
    LET segs == SegmentsOf(a)
        valid == ValidSegments(segs)
    IN IF IsSingleSlash(segs) \/ valid = <<>> THEN <<>>
       ELSE FinalQuery(FirstQuery(valid), OptionsOf(a))

urlJoin(a) == urlJoinPath(a) \o urlJoinQuery(a)

(***************************************************************************)
(* The calls explored.  A segment list has at most MaxSegs segments whose  *)
(* texts have at most MaxChars characters of Alphabet in all; its first    *)
(* string may also start with a protocol.  Numbers are 0 and MaxNum.       *)
(***************************************************************************)
Alphabet == {"a", "/", ":", "?"}

TextsUpTo(chars, k) == UNION {[1..m -> chars] : m \in 0..k}

HttpLike == <<"a", ":", "/", "/">>

Numbers == {0, MaxNum}

SegmentValues(c) ==
    {Null, Undefined} \cup {Num(k) : k \in Numbers} \cup {Str(x) : x \in TextsUpTo(Alphabet, c)}

Chars(v) == IF v.t = "string" THEN Len(v.s) ELSE 0

\* The lists of exactly m segments with at most c characters in all.
RECURSIVE SegmentLists(_, _)
SegmentLists(m, c) ==
    IF m = 0 THEN {<<>>}
    ELSE UNION {{<<v>> \o rest : rest \in SegmentLists(m - 1, c - Chars(v))} :
                    v \in SegmentValues(c)}

\* list with protocol put before its first string (list itself when it has none).
PrefixFirstString(list, protocol) ==
    IF \E i \in 1..Len(list) : list[i].t = "string"
    THEN LET i == CHOOSE k \in 1..Len(list) :
                      list[k].t = "string" /\ \A j \in 1..(k - 1) : list[j].t # "string"
         IN [list EXCEPT ![i] = Str(protocol \o list[i].s)]
    ELSE list

ListsUpTo(c) ==
    LET plain == UNION {SegmentLists(m, c) : m \in 0..MaxSegs}
    IN plain \cup {PrefixFirstString(list, HttpLike) : list \in plain}

Tri == {"unset", "true", "false"}

PageQuery == [present |-> TRUE, entries |-> <<[key |-> <<"p">>, val |-> QNum(1)]>>]

OptionsRecords(queries) ==
    {[trailingSlash |-> ts, normalize |-> nz, query |-> q] :
        ts \in Tri, nz \in Tri, q \in queries}

\* The end of an argument list: nothing, or one options object.
OptionTails(optionSet) == {<<>>} \cup {<<Obj(opts)>> : opts \in optionSet}

\* Query objects: at most MaxKeys distinct keys in any insertion order, each with
\* a scalar or an array of at most MaxItems items.
QueryKeys == {<<"k">>, <<"&">>, <<"2">>, <<"1", "0">>}

KeyLists ==
    {keys \in UNION {[1..m -> QueryKeys] : m \in 0..MaxKeys} :
        \A i, j \in 1..Len(keys) : keys[i] = keys[j] => i = j}

Scalars == {QNull, QUndefined, QStr(<<"a", " ">>), QNum(MaxNum), QBool(TRUE)}

ArrayItems == {QUndefined, QStr(<<"a", " ">>)}

QueryValues == Scalars \cup {QArray(items) : items \in TextsUpTo(ArrayItems, MaxItems)}

QueryOf(keys, vals) ==
    [present |-> TRUE, entries |-> [i \in 1..Len(keys) |-> [key |-> keys[i], val |-> vals[i]]]]

\* Protocol calls: urlJoin(P + host, a, b) with texts without '/'.
ProtocolPrefixes == {HttpLike, <<"a", "1", "+", ".", "-", ":", "/", "/">>}

PartTexts == TextsUpTo(Alphabet \ {"/"}, MaxPart) \ {<<>>}

\* The calls that return early, for the specifications of particular calls.
EarlyCalls == {<<>>, <<Str(<<"/">>)>>, <<Str(<<"/">>), Obj(DefaultOptions)>>}

(***************************************************************************)
(* The state machine: one call of urlJoin.                                 *)
(***************************************************************************)
Start(a) ==
    /\ args = a
    /\ pc = "start"
    /\ options = DefaultOptions
    /\ segments = <<>>
    /\ validSegments = <<>>
    /\ existingQuery = <<>>
    /\ cleanedSegments = <<>>
    /\ result = <<>>
    /\ finalQuery = <<>>
    /\ returned = <<>>

Init ==
    \E segs \in ListsUpTo(MaxChars), tail \in OptionTails(OptionsRecords({NoQuery, PageQuery})) :
        Start(segs \o tail)

\* Calls with a query option: urlJoin('/a', MaxNum, { trailingSlash, query }),
\* trailingSlash true with the queries of at most one key.
InitQuery ==
    \/ \E a \in EarlyCalls : Start(a)
    \/ \E keys \in KeyLists, ts \in {"unset", "true"} :
           \E vals \in [1..Len(keys) -> QueryValues] :
               /\ (ts = "true" => Len(keys) <= 1)
               /\ Start(<<Str(<<"/", "a">>), Num(MaxNum),
                       Obj([trailingSlash |-> ts, normalize |-> "unset",
                            query |-> QueryOf(keys, vals)])>>)

\* Calls urlJoin(P + host, a, b) with default options.
InitProtocol ==
    \/ \E a \in EarlyCalls : Start(a)
    \/ \E p \in ProtocolPrefixes, host \in PartTexts, a \in PartTexts, b \in PartTexts :
           Start(<<Str(p \o host), Str(a), Str(b)>>)

\* The texts that start with '/', with at most MaxTail characters after it.
AbsoluteTexts == {<<"/">> \o x : x \in TextsUpTo(Alphabet, MaxTail)}

\* Calls whose first valid segment starts with '/': an optional null, the text,
\* one more segment, and an options object without a query or none.
InitAbsolute ==
    \/ \E a \in EarlyCalls : Start(a)
    \/ \E lead \in {<<>>, <<Null>>}, first \in AbsoluteTexts, next \in SegmentValues(1),
          tail \in OptionTails(OptionsRecords({NoQuery})) :
           Start(lead \o <<Str(first), next>> \o tail)

\* The texts with a '?', of at most MaxQueryText characters.
QueryTexts == {x \in TextsUpTo(Alphabet, MaxQueryText) : \E i \in 1..Len(x) : x[i] = "?"}

\* Calls with two segments that both carry a query, the first one with or
\* without a protocol before it.
InitCarriers ==
    \/ \E a \in EarlyCalls : Start(a)
    \/ \E protocol \in {<<>>, HttpLike}, first \in QueryTexts, second \in QueryTexts,
          tail \in OptionTails(OptionsRecords({NoQuery, PageQuery})) :
           Start(<<Str(protocol \o first), Str(second)>> \o tail)

\* Lines 237-241: the options are split from the segments.
Classify ==
    /\ pc = "start"
    /\ options' = OptionsOf(args)
    /\ segments' = SegmentsOf(args)
    /\ pc' = "classified"
    /\ UNCHANGED <<args, validSegments, existingQuery, cleanedSegments, result,
                   finalQuery, returned>>

\* Lines 244-249: the single segment '/' returns at once.
ReturnSingleSlash ==
    /\ pc = "classified"
    /\ IsSingleSlash(segments)
    /\ returned' = SingleSlashResult(options)
    /\ pc' = "done"
    /\ UNCHANGED <<args, options, segments, validSegments, existingQuery,
                   cleanedSegments, result, finalQuery>>

\* Lines 252-255: filter, normalize, filter.
FilterSegments ==
    /\ pc = "classified"
    /\ ~IsSingleSlash(segments)
    /\ validSegments' = ValidSegments(segments)
    /\ pc' = "filtered"
    /\ UNCHANGED <<args, options, segments, existingQuery, cleanedSegments, result,
                   finalQuery, returned>>

\* A variant that applies the query option before it returns.
ReturnEmptyWithQuery ==
    /\ pc = "filtered"
    /\ Len(validSegments) = 0
    /\ returned' = FinalQuery(<<>>, options)
    /\ pc' = "done"
    /\ UNCHANGED <<args, options, segments, validSegments, existingQuery,
                   cleanedSegments, result, finalQuery>>

\* Lines 257-259: nothing left returns ''.
ReturnEmpty ==
    /\ pc = "filtered"
    /\ Len(validSegments) = 0
    /\ returned' = <<>>
    /\ pc' = "done"
    /\ UNCHANGED <<args, options, segments, validSegments, existingQuery,
                   cleanedSegments, result, finalQuery>>

\* Lines 262-269: the queries are cut from the segments, the first one kept.
ExtractQueries ==
    /\ pc = "filtered"
    /\ Len(validSegments) # 0
    /\ existingQuery' = FirstQuery(validSegments)
    /\ cleanedSegments' = CleanedSegments(validSegments)
    /\ pc' = "extracted"
    /\ UNCHANGED <<args, options, segments, validSegments, result, finalQuery, returned>>

\* Lines 272-288: join, then the protocol or the leading slash.
JoinSegments ==
    /\ pc = "extracted"
    /\ result' = JoinedResult(segments, cleanedSegments)
    /\ pc' = "joined"
    /\ UNCHANGED <<args, options, segments, validSegments, existingQuery,
                   cleanedSegments, finalQuery, returned>>

\* Lines 291-293.
NormalizeResult ==
    /\ pc = "joined"
    /\ result' = NormalizedResult(result, options)
    /\ pc' = "normalized"
    /\ UNCHANGED <<args, options, segments, validSegments, existingQuery,
                   cleanedSegments, finalQuery, returned>>

\* Lines 296-300.
ApplyTrailingSlash ==
    /\ pc = "normalized"
    /\ result' = TrailingSlashResult(result, options)
    /\ pc' = "slashed"
    /\ UNCHANGED <<args, options, segments, validSegments, existingQuery,
                   cleanedSegments, finalQuery, returned>>

\* Lines 303-316: the query is merged and appended.
AppendQuery ==
    /\ pc = "slashed"
    /\ finalQuery' = FinalQuery(existingQuery, options)
    /\ returned' = result \o FinalQuery(existingQuery, options)
    /\ pc' = "done"
    /\ UNCHANGED <<args, options, segments, validSegments, existingQuery,
                   cleanedSegments, result>>

Next ==
    \/ Classify
    \/ ReturnSingleSlash
    \/ FilterSegments
    \/ ReturnEmpty
    \/ ExtractQueries
    \/ JoinSegments
    \/ NormalizeResult
    \/ ApplyTrailingSlash
    \/ AppendQuery

Spec == Init /\ [][Next]_vars

SpecQuery == InitQuery /\ [][Next]_vars

SpecProtocol == InitProtocol /\ [][Next]_vars

SpecAbsolute == InitAbsolute /\ [][Next]_vars

SpecCarriers == InitCarriers /\ [][Next]_vars

\* The call has returned through the last line (not through an early return).
Joined == pc = "done" /\ Len(validSegments) > 0

\* The path part of the returned value.
Path == IF Joined THEN result ELSE returned

\* The steps compute what the function computes.
StepsAgree == pc = "done" => returned = urlJoin(args) /\ Path = urlJoinPath(args)

(***************************************************************************)
(* The claims.                                                             *)
(***************************************************************************)
Returned == pc = "done"

\* args with its segments replaced by segs, the options object kept.
WithSegments(a, segs) == IF hasOptions(a) THEN segs \o <<a[Len(a)]>> ELSE segs

\* args with its options replaced by opts.
WithOptions(a, opts) == SegmentsOf(a) \o <<Obj(opts)>>

\* texts with sep between every two of them.
RECURSIVE Separated(_, _)
Separated(texts, sep) ==
    IF Len(texts) = 0 THEN <<>>
    ELSE IF Len(texts) = 1 THEN texts[1]
    ELSE Separated(SubSeq(texts, 1, Len(texts) - 1), sep) \o sep \o texts[Len(texts)]

PlainSegment(v) ==
    \/ v.t = "number"
    \/ v.t = "string" /\ v.s # <<>> /\ \A i \in 1..Len(v.s) : v.s[i] \notin {"/", "?", ":"}

PlainCall ==
    /\ Returned
    /\ options = DefaultOptions
    /\ Len(segments) >= 1
    /\ \A i \in 1..Len(segments) : PlainSegment(segments[i])

\* C1: with default options, one or more segments that are numbers or non-empty
\* texts without '/', '?' and ':' are returned as their texts (numbers in decimal),
\* in order, separated by exactly one '/', nothing before and nothing after.
C1_PlainSegmentsJoined ==
    PlainCall => returned = Separated([i \in 1..Len(segments) |-> ToStr(segments[i])], <<"/">>)

\* urlJoin('a', 12) has returned 'a/12'.
C1_Witness ==
    /\ PlainCall
    /\ Len(segments) = 2
    /\ segments[1] = Str(<<"a">>)
    /\ segments[2].t = "number" /\ segments[2].n = 12
    /\ returned = <<"a", "/", "1", "2">>

AbsentValues == {Null, Undefined, Str(<<>>)}

InsertAt(list, i, v) == SubSeq(list, 1, i) \o <<v>> \o SubSeq(list, i + 1, Len(list))

\* C2: inserting a null, an undefined or a '' segment at any position leaves the
\* result unchanged, for every segment sequence and every options record (a
\* removal is the same statement read from the longer list).
C2_AbsentSegmentsIgnored ==
    Returned =>
        \A i \in 0..Len(segments), v \in AbsentValues :
            urlJoin(WithSegments(args, InsertAt(segments, i, v))) = returned

FirstValid == SelectSeq(segments, isValidSegment)

ProtocolCall ==
    /\ Returned
    /\ FirstValid # <<>>
    /\ ProtocolLength(ToStr(FirstValid[1])) > 0

\* C3: when the first valid segment begins with a protocol prefix P, the result
\* begins with exactly P, whatever the other segments and the options are.
C3_ProtocolKept ==
    ProtocolCall =>
        LET first == ToStr(FirstValid[1])
        IN StartsWith(returned, SubSeq(first, 1, ProtocolLength(first)))

\* C4: unless normalize is false, the path part of the result has no two
\* consecutive '/', except a '//' directly preceded by ':'.
C4_NoDoubleSlash ==
    (Returned /\ options.normalize # "false") =>
        \A i \in 1..(Len(Path) - 1) :
            (Path[i] = "/" /\ Path[i + 1] = "/") => (i > 1 /\ Path[i - 1] = ":")

\* C5: with default options, joining the result again, as the single segment,
\* returns it unchanged.
C5_Idempotent ==
    (Returned /\ options = DefaultOptions) => urlJoin(<<Str(returned)>>) = returned

\* C6: when trailingSlash is false the path part of the result does not end with
\* '/', unless it is exactly '/'; for every setting of normalize and query.
C6_NoTrailingSlash ==
    (Returned /\ options.trailingSlash = "false") =>
        (Path = <<"/">> \/ ~EndsWith(Path, <<"/">>))

TrailingSlashUnset == WithOptions(args, [options EXCEPT !.trailingSlash = "unset"])

\* C7: when trailingSlash is true and a segment survives the filtering, the path
\* part ends with '/': it is the path computed with trailingSlash unset when that
\* one ends with '/', and that path plus one '/' otherwise; the query follows it.
C7_TrailingSlashAdded ==
    (Joined /\ options.trailingSlash = "true") =>
        LET base == urlJoinPath(TrailingSlashUnset)
        IN /\ result = (IF EndsWith(base, <<"/">>) THEN base ELSE base \o <<"/">>)
           /\ EndsWith(result, <<"/">>)
           /\ returned = result \o urlJoinQuery(TrailingSlashUnset)

\* A call with trailingSlash true whose path ends with '/' already, and a query.
C7_Witness ==
    /\ Joined
    /\ options.trailingSlash = "true"
    /\ EndsWith(urlJoinPath(TrailingSlashUnset), <<"/">>)
    /\ result = urlJoinPath(TrailingSlashUnset)
    /\ finalQuery # <<>>
    /\ returned = result \o finalQuery

HasQueryMark(v) == v.t = "string" /\ \E i \in 1..Len(v.s) : v.s[i] = "?"

NoEmbeddedQuery == \A i \in 1..Len(segments) : ~HasQueryMark(segments[i])

\* The values of one property that are neither null nor undefined, in order.
SurvivingValues(v) ==
    IF v.t = "array" THEN SelectSeq(v.items, LAMBDA x : x.t \notin {"null", "undefined"})
    ELSE IF v.t \in {"null", "undefined"} THEN <<>>
    ELSE <<v>>

\* One encoded key=value text per surviving value, the properties taken in the
\* order of the sequence.
RECURSIVE PairsOf(_)
PairsOf(entries) ==
    IF Len(entries) = 0 THEN <<>>
    ELSE LET last == entries[Len(entries)]
             values == SurvivingValues(last.val)
         IN PairsOf(SubSeq(entries, 1, Len(entries) - 1))
            \o [i \in 1..Len(values) |->
                    encodeURIComponent(last.key) \o <<"=">> \o encodeURIComponent(QToStr(values[i]))]

AppendedQuery(entries) ==
    IF Len(PairsOf(entries)) = 0 THEN <<>> ELSE <<"?">> \o Separated(PairsOf(entries), <<"&">>)

\* Property i comes before property j: integer keys first, by their number, then
\* the other keys as inserted.
ComesBefore(entries, i, j) ==
    LET a == entries[i].key
        b == entries[j].key
    IN IF IsArrayIndex(a) /\ IsArrayIndex(b) THEN KeyNumber(a) < KeyNumber(b)
       ELSE IF IsArrayIndex(a) # IsArrayIndex(b) THEN IsArrayIndex(a)
       ELSE i < j

PropertyOrder(entries) ==
    LET n == Len(entries)
        order == CHOOSE f \in [1..n -> 1..n] :
                     /\ \A i, j \in 1..n : i # j => f[i] # f[j]
                     /\ \A i, j \in 1..n : i < j => ComesBefore(entries, f[i], f[j])
    IN [i \in 1..n |-> entries[order[i]]]

QueryCall == Joined /\ NoEmbeddedQuery /\ options.query.present

EmbeddedQuery ==
    LET carriers == SelectSeq(segments, HasQueryMark)
    IN Slice(carriers[1].s, IndexOf(carriers[1].s, "?"))

NewQuery == IF options.query.present THEN stringifyQuery(options.query) ELSE <<>>

\* C9: when a segment carries an embedded query E (its text from the first '?' on)
\* the result ends with E, '&' and the new pairs when the query option yields a
\* pair, and with E unchanged when it is absent or yields none.
C9_ExistingThenNew ==
    (Returned /\ ~NoEmbeddedQuery) =>
        IF NewQuery # <<>>
        THEN EndsWith(returned, EmbeddedQuery \o <<"&">> \o Slice(NewQuery, 2))
        ELSE EndsWith(returned, EmbeddedQuery)

NoSlash(text) == \A i \in 1..Len(text) : text[i] # "/"

NoQueryMark(text) == \A i \in 1..Len(text) : text[i] # "?"

\* urlJoin(P + host, a, b) with default options, a non-empty host, a and b, none
\* with a '/'.
ProtocolHostCall ==
    /\ Returned
    /\ options = DefaultOptions
    /\ Len(segments) = 3
    /\ \A i \in 1..3 : segments[i].t = "string" /\ segments[i].s # <<>>
    /\ ProtocolLength(segments[1].s) > 0
    /\ ProtocolLength(segments[1].s) < Len(segments[1].s)
    /\ NoSlash(Slice(segments[1].s, ProtocolLength(segments[1].s) + 1))
    /\ NoSlash(segments[2].s)
    /\ NoSlash(segments[3].s)

\* C10 as stated: urlJoin(P + host, a, b) is P + host + '/' + a + '/' + b.
C10_ProtocolJoin ==
    ProtocolHostCall =>
        returned = segments[1].s \o <<"/">> \o segments[2].s \o <<"/">> \o segments[3].s

\* C10 as amended: the same when host and a have no '?' either.
C10_ProtocolJoinNoQuery ==
    (ProtocolHostCall /\ NoQueryMark(segments[1].s) /\ NoQueryMark(segments[2].s)) =>
        returned = segments[1].s \o <<"/">> \o segments[2].s \o <<"/">> \o segments[3].s

\* urlJoin('a1+.-://a:', ':a', 'a?') has returned 'a1+.-://a:/:a/a?'.
C10_Witness ==
    /\ ProtocolHostCall
    /\ segments = <<Str(<<"a", "1", "+", ".", "-", ":", "/", "/", "a", ":">>),
                    Str(<<":", "a">>), Str(<<"a", "?">>)>>
    /\ returned = <<"a", "1", "+", ".", "-", ":", "/", "/", "a", ":", "/", ":", "a",
                    "/", "a", "?">>

OnlyAbsent == \A i \in 1..Len(segments) : segments[i] \in AbsentValues

\* C11: when every segment is null, undefined or '' (no segment at all included)
\* the result is '', whatever the options are: no '/' with trailingSlash true,
\* nothing from a query option that has pairs.
C11_AbsentOnlyIsEmpty ==
    (Returned /\ OnlyAbsent) => returned = <<>>

\* urlJoin(null, '', { trailingSlash: true, query: { p: 1 } }) has returned ''.
C11_Witness ==
    /\ Returned
    /\ segments = <<Null, Str(<<>>)>>
    /\ options.trailingSlash = "true"
    /\ options.query = PageQuery
    /\ stringifyQuery(options.query) # <<>>
    /\ returned = <<>>

SingleSlashCall == Returned /\ Len(segments) = 1 /\ segments[1] = Str(<<"/">>)

\* C12: when the segments, the options object set aside, are the one text '/',
\* the result is '' with trailingSlash false and '/' otherwise, whatever normalize
\* and query are; no query text is appended.
C12_SingleSlash ==
    SingleSlashCall =>
        returned = (IF options.trailingSlash = "false" THEN <<>> ELSE <<"/">>)

\* urlJoin('/', { trailingSlash: false, normalize: false, query: { p: 1 } }) has
\* returned ''.
C12_Witness ==
    /\ SingleSlashCall
    /\ options.trailingSlash = "false"
    /\ options.normalize = "false"
    /\ options.query = PageQuery
    /\ returned = <<>>

\* A segment survives and the first valid one starts with '/' (so with no
\* protocol prefix, which starts with a letter).
AbsoluteCall ==
    /\ Joined
    /\ StartsWith(ToStr(FirstValid[1]), <<"/">>)
    /\ ProtocolLength(ToStr(FirstValid[1])) = 0

\* C13: when a segment survives the filtering and the first valid segment starts
\* with '/' and not with a protocol prefix, the result starts with '/'.
C13_AbsoluteStaysAbsolute ==
    AbsoluteCall => StartsWith(returned, <<"/">>)

SeveralCarriers == Joined /\ Len(SelectSeq(segments, HasQueryMark)) >= 2

\* The text before the first '?' of a text that has one.
BeforeQueryMark(text) == SubSeq(text, 1, IndexOf(text, "?") - 1)

\* C14: when several segments contain '?', the existing query carried to the end
\* of the result is exactly the first such segment's text from its '?' on; every
\* later one gives the path only its text before its own '?' (without the '/' it
\* starts with, as for every segment), and the rest of it is in the result nowhere.
C14_FirstQueryOnly ==
    SeveralCarriers =>
        /\ existingQuery = EmbeddedQuery
        /\ returned = result \o (IF NewQuery # <<>>
                                 THEN EmbeddedQuery \o <<"&">> \o Slice(NewQuery, 2)
                                 ELSE EmbeddedQuery)
        /\ NoQueryMark(result)
        /\ \A i \in 2..Len(segments) :
               (HasQueryMark(segments[i]) /\ Len(cleanedSegments) = Len(segments)) =>
                   cleanedSegments[i] = StripLeadingSlashes(BeforeQueryMark(segments[i].s))

====
